---- MODULE Spec2Model ----
(***************************************************************************)
(* Network Utilization Dashboard: the Streamlit script app.py (load,       *)
(* validate, filter, KPIs, aggregation) and compute_aggregations of        *)
(* src/analyze_network.py, as a state machine.                             *)
(*                                                                         *)
(* Encoding of pandas values.                                              *)
(*   float cell      <<>> is NaN, <<n, d>> with d > 0 the rational n/d in   *)
(*                   lowest terms, <<1, 0>> is +inf, <<-1, 0>> is -inf.     *)
(*   raw CSV number  as a float cell, or <<0, 0>>: text that is no number.  *)
(*   timestamp       <<>> is NaT (or an empty CSV field), <<t>> an instant  *)
(*                   (milliseconds since day 0, 00:00:00), <<1, t>> text    *)
(*                   that parses to instant t, <<0, 0>> text that does not. *)
(*   categorical     <<>> is null, <<v>> a value.  site_id values are the   *)
(*                   ranks of the site names in their sort order.           *)
(* A table is a sequence of rows; a row is a record that carries its       *)
(* DataFrame index label in field idx.  The columns cell_id,               *)
(* packet_loss_pct and users_active take part as header names only, and    *)
(* the hour_of_day table and the users column of the site tables, which    *)
(* are built like the others, are left out.                                *)
(***************************************************************************)
EXTENDS Integers, Sequences, FiniteSets, TLC

VARIABLES
    pc,          \* position of the script / of read_network_csv
    source,      \* the data source taken by this run
    raw,         \* the file or query result being loaded: [columns, rows]
    columns,     \* df.columns
    df,          \* the DataFrame df
    outcome,     \* how the run ended, with the message shown
    date_range,  \* <<start day, end day>> returned by st.date_input
    techs,       \* st.multiselect selections
    regions,
    cities,
    sites,
    df_f,        \* the filtered DataFrame
    tables,      \* what compute_aggregations returned
    warned       \* the filters of a run of this session selected no row

vars == <<pc, source, raw, columns, df, outcome, date_range, techs, regions,
          cities, sites, df_f, tables, warned>>

-----------------------------------------------------------------------------
(* Bounds of the model.                                                    *)

MaxRows == 2
MaxCsvRows == 2
MaxFilterRows == 2
MaxAggRows == 3

-----------------------------------------------------------------------------
(* Numbers.                                                                *)

NaN == <<>>
PosInf == <<1, 0>>
NegInf == <<-1, 0>>
NotNumber == <<0, 0>>

Abs(x) == IF x < 0 THEN -x ELSE x

RECURSIVE GCD(_, _)
GCD(a, b) == IF b = 0 THEN a ELSE GCD(b, a % b)

\* The float n/d (d # 0), in lowest terms with a positive denominator.
Frac(n, d) ==
    LET g == GCD(Abs(n), Abs(d))
        s == IF d < 0 THEN -1 ELSE 1
    IN  <<s * (n \div g), Abs(d) \div g>>

Num(n) == <<n, 1>>

isna(x) == x = NaN
IsInf(x) == x = PosInf \/ x = NegInf
IsFinite(x) == ~isna(x) /\ ~IsInf(x)

\* IEEE comparison: every comparison with NaN is false.
Le(a, b) ==
    /\ ~isna(a) /\ ~isna(b)
    /\ \/ a = NegInf
       \/ b = PosInf
       \/ IsFinite(a) /\ IsFinite(b) /\ a[1] * b[2] <= b[1] * a[2]

Lt(a, b) == Le(a, b) /\ a # b
Ge(a, b) == Le(b, a)

\* Series / Series and Series * scalar of float64 under np.errstate(ignore).
FloatDiv(a, b) ==
    IF isna(a) \/ isna(b) THEN NaN
    ELSE IF IsInf(a) \/ IsInf(b) THEN NaN
    ELSE IF b[1] = 0
         THEN IF a[1] > 0 THEN PosInf
              ELSE IF a[1] < 0 THEN NegInf ELSE NaN
         ELSE Frac(a[1] * b[2], a[2] * b[1])

FloatMul(a, k) ==
    IF isna(a) THEN NaN
    ELSE IF IsInf(a) THEN a
    ELSE Frac(a[1] * k, a[2])

\* Series.clip(lower, upper): NaN stays NaN, everything else is brought
\* into [lower, upper], the infinities included.
clip(x, lower, upper) ==
    IF isna(x) THEN NaN
    ELSE IF Lt(x, Num(lower)) THEN Num(lower)
    ELSE IF Lt(Num(upper), x) THEN Num(upper)
    ELSE x

\* pd.to_numeric(errors="coerce") of one cell.
to_numeric(x) == IF x = NotNumber THEN NaN ELSE x

\* pd.to_datetime(errors="coerce") of one cell.
to_datetime(x) ==
    IF Len(x) = 2
    THEN IF x[1] = 1 THEN <<x[2]>> ELSE <<>>
    ELSE x

-----------------------------------------------------------------------------
(* Time.                                                                   *)

Second == 1000
Hour == 3600 * Second
Day == 24 * Hour

DateOf(ts) == ts[1] \div Day
HourOf(ts) == (ts[1] % Day) \div Hour

At(day, h, m, s, ms) == day * Day + h * Hour + m * 60 * Second + s * Second + ms

-----------------------------------------------------------------------------
(* Columns.                                                                *)

REQUIRED_COLS ==
    {"timestamp", "region", "city", "site_id", "cell_id", "tech",
     "capacity_mbps", "throughput_mbps", "utilization_pct",
     "latency_ms", "packet_loss_pct", "users_active"}

TimestampAliases == <<"timestamp", "time", "datetime", "event_time", "date_time">>

\* The column names in Python's string order.
ColumnOrder ==
    <<"capacity_mbps", "cell_id", "city", "date_time", "datetime",
      "event_time", "latency_ms", "packet_loss_pct", "region", "site_id",
      "tech", "throughput_mbps", "time", "timestamp", "users_active",
      "utilization_pct">>

\* The names of S listed without sorting them, here in the reverse order.
unsorted(S) ==
    LET n == Len(ColumnOrder)
    IN  SelectSeq([i \in 1..n |-> ColumnOrder[n + 1 - i]], LAMBDA c : c \in S)

sorted(S) == SelectSeq(ColumnOrder, LAMBDA c : c \in S)

\* _apply_aliases on the header: the first alternative present is renamed.
apply_aliases(cols) ==
    IF "timestamp" \in cols THEN cols
    ELSE LET present == {i \in 1..Len(TimestampAliases) : TimestampAliases[i] \in cols}
         IN  IF present = {} THEN cols
             ELSE LET first == CHOOSE i \in present : \A j \in present : i <= j
                  IN  (cols \ {TimestampAliases[first]}) \cup {"timestamp"}

missing_cols(cols) == REQUIRED_COLS \ cols

-----------------------------------------------------------------------------
(* Tables.                                                                 *)

Range(s) == {s[i] : i \in 1..Len(s)}

SeqsUpTo(S, n) == UNION {[1..k -> S] : k \in 0..n}

\* The rows of a table, each given its index label (its position).
Indexed(rows) == [i \in 1..Len(rows) |-> [rows[i] EXCEPT !.idx = i]]

Row(ts, reg, cty, site, tch, cap, thr, util, lat) ==
    [idx |-> 0, timestamp |-> ts, region |-> reg, city |-> cty,
     site_id |-> site, tech |-> tch, capacity_mbps |-> cap,
     throughput_mbps |-> thr, utilization_pct |-> util, latency_ms |-> lat]

NoOutcome == [kind |-> "running", missing |-> <<>>, expected |-> <<>>]
Ended(k) == [kind |-> k, missing |-> <<>>, expected |-> <<>>]

NoTables ==
    [site_hour |-> <<>>, site_day |-> <<>>, busy_hour |-> <<>>,
     congested_cells |-> <<>>, raised |-> FALSE, called |-> FALSE]

NoFile == [columns |-> {}, rows |-> <<>>]

-----------------------------------------------------------------------------
(* read_network_csv, step by step.  It is entered at pc = "read_csv" with   *)
(* the file in raw; it returns at pc = "loaded" or raises, and the caller   *)
(* (app.py lines 91-95 and 99-103) shows the message and stops the run.     *)

ReadCsv ==
    /\ pc = "read_csv"
    /\ df' = Indexed(raw.rows)
    /\ columns' = apply_aliases(raw.columns)
    /\ pc' = "check"
    /\ UNCHANGED <<source, raw, outcome, date_range, techs, regions, cities,
                   sites, df_f, tables, warned>>

schema_error(cols) ==
    [kind |-> "schema_error",
     missing |-> sorted(missing_cols(cols)),
     expected |-> sorted(REQUIRED_COLS)]

CheckColumns ==
    /\ pc = "check"
    /\ IF missing_cols(columns) # {}
       THEN /\ outcome' = schema_error(columns)
            /\ pc' = "end"
       ELSE /\ outcome' = outcome
            /\ pc' = "parse"
    /\ UNCHANGED <<source, raw, columns, df, date_range, techs, regions,
                   cities, sites, df_f, tables, warned>>

parse_timestamps(d) ==
    [i \in 1..Len(d) |-> [d[i] EXCEPT !.timestamp = to_datetime(@)]]

ParseTimestamp ==
    /\ pc = "parse"
    /\ df' = parse_timestamps(df)
    /\ IF \A i \in 1..Len(df') : df'[i].timestamp = <<>>
       THEN /\ outcome' = Ended("timestamp_error")
            /\ pc' = "end"
       ELSE /\ outcome' = outcome
            /\ pc' = "coerce"
    /\ UNCHANGED <<source, raw, columns, date_range, techs, regions, cities,
                   sites, df_f, tables, warned>>

coerce_numeric(d) ==
    [i \in 1..Len(d) |->
        [d[i] EXCEPT !.capacity_mbps = to_numeric(@),
                     !.throughput_mbps = to_numeric(@),
                     !.utilization_pct = to_numeric(@),
                     !.latency_ms = to_numeric(@)]]

CoerceNumeric ==
    /\ pc = "coerce"
    /\ df' = coerce_numeric(df)
    /\ pc' = "backfill"
    /\ UNCHANGED <<source, raw, columns, outcome, date_range, techs, regions,
                   cities, sites, df_f, tables, warned>>

\* calc = (df["throughput_mbps"] / df["capacity_mbps"]) * 100.0, clipped.
calc_util(r) == clip(FloatMul(FloatDiv(r.throughput_mbps, r.capacity_mbps), 100), 0, 100)

backfill(d) ==
    IF \E i \in 1..Len(d) : isna(d[i].utilization_pct)
    THEN [i \in 1..Len(d) |->
            IF isna(d[i].utilization_pct)
            THEN [d[i] EXCEPT !.utilization_pct = calc_util(d[i])]
            ELSE d[i]]
    ELSE d

Backfill ==
    /\ pc = "backfill"
    /\ df' = backfill(df)
    /\ pc' = "loaded"
    /\ UNCHANGED <<source, raw, columns, outcome, date_range, techs, regions,
                   cities, sites, df_f, tables, warned>>

-----------------------------------------------------------------------------
(* Series reductions.                                                      *)

\* Raised by np.percentile on an array with no elements.
IndexError == <<0, 0, 0>>

dropna(vals) == SelectSeq(vals, LAMBDA v : ~isna(v))

AddF(a, b) == Frac(a[1] * b[2] + b[1] * a[2], a[2] * b[2])

RECURSIVE SumF(_)
SumF(vals) == IF vals = <<>> THEN Num(0) ELSE AddF(Head(vals), SumF(Tail(vals)))

\* Series.mean(): NaN values are skipped; NaN when nothing is left.
mean(vals) ==
    LET v == dropna(vals)
    IN  IF v = <<>> THEN NaN
        ELSE LET t == SumF(v) IN Frac(t[1], t[2] * Len(v))

\* Series.max(): NaN values are skipped; NaN when nothing is left.
max(vals) ==
    LET v == dropna(vals)
    IN  IF v = <<>> THEN NaN
        ELSE CHOOSE m \in Range(v) : \A x \in Range(v) : Le(x, m)

\* The values of a NaN-free sequence in ascending order.
Ascending(v) ==
    LET n == Len(v)
        before(i, j) == Lt(v[i], v[j]) \/ (v[i] = v[j] /\ i < j)
    IN  [k \in 1..n |->
            v[CHOOSE i \in 1..n : Cardinality({j \in 1..n : before(j, i)}) = k - 1]]

\* np.percentile(a, q), linear interpolation between the two nearest ranks:
\* the virtual index is q/100 * (n-1).
np_percentile(a, q) ==
    IF a = <<>> THEN IndexError
    ELSE LET s == Ascending(a)
             n == Len(a)
             lo == (q * (n - 1)) \div 100
             m == (q * (n - 1)) % 100
             hi == IF lo + 1 > n - 1 THEN n - 1 ELSE lo + 1
             x == s[lo + 1]
             y == s[hi + 1]
         IN  AddF(Frac(x[1] * (100 - m), x[2] * 100), Frac(y[1] * m, y[2] * 100))

\* The lambda without its guard: np.percentile on whatever dropna() leaves.
p95_unguarded(vals) == np_percentile(dropna(vals), 95)

\* lambda s: np.percentile(s.dropna(), 95) if s.notna().any() else np.nan
p95(vals) ==
    IF \E i \in 1..Len(vals) : ~isna(vals[i])
    THEN np_percentile(dropna(vals), 95)
    ELSE NaN

-----------------------------------------------------------------------------
(* Sorting and grouping.                                                   *)

\* The position of x among the distinct non-null values of a column, as
\* sort_values codes it: NaN after every value (na_position="last"), the
\* order of the values reversed when descending.
sort_code(x, vals, ascending) ==
    LET cats == {v \in Range(vals) : ~isna(v)}
        n == Cardinality(cats)
        code == Cardinality({v \in cats : Lt(v, x)})
    IN  IF isna(x) THEN n
        ELSE IF ascending THEN code ELSE n - code - 1

LexLess(a, b) ==
    \E k \in 1..Len(a) : a[k] < b[k] /\ \A j \in 1..(k - 1) : a[j] = b[j]

\* np.lexsort: the rows of d in the order of their keys, rows of equal keys
\* in their order in d.
lexsort(d, keys) ==
    LET n == Len(d)
        before(i, j) == LexLess(keys[i], keys[j]) \/ (keys[i] = keys[j] /\ i < j)
    IN  [k \in 1..n |->
            d[CHOOSE i \in 1..n : Cardinality({j \in 1..n : before(j, i)}) = k - 1]]

\* The group keys of df.groupby([...]) in sorted order: rows with a null
\* key are left out (dropna=True), the keys are sorted (sort=True).
group_keys(keyset) ==
    LET ks == {k \in keyset : \A i \in 1..Len(k) : k[i] # <<>>}
        flat(k) == [i \in 1..Len(k) |-> k[i][1]]
        n == Cardinality(ks)
    IN  [p \in 1..n |->
            CHOOSE k \in ks : Cardinality({o \in ks : LexLess(flat(o), flat(k))}) = p - 1]

Column(d, c) == [i \in 1..Len(d) |-> d[i][c]]

-----------------------------------------------------------------------------
(* compute_aggregations.                                                   *)

CongestionThreshold == 80

HourKey(r) == <<r.site_id, <<HourOf(r.timestamp)>>>>
DayKey(r) == <<r.site_id, <<DateOf(r.timestamp)>>>>

site_hour(d) ==
    LET keys == group_keys({HourKey(d[i]) : i \in 1..Len(d)})
    IN  [g \in 1..Len(keys) |->
            LET rows == SelectSeq(d, LAMBDA r : HourKey(r) = keys[g])
            IN  [site_id |-> keys[g][1], hour |-> keys[g][2][1],
                 avg_util |-> mean(Column(rows, "utilization_pct")),
                 p95_util |-> p95(Column(rows, "utilization_pct")),
                 avg_latency |-> mean(Column(rows, "latency_ms"))]]

site_day(d) ==
    LET keys == group_keys({DayKey(d[i]) : i \in 1..Len(d)})
    IN  [g \in 1..Len(keys) |->
            LET rows == SelectSeq(d, LAMBDA r : DayKey(r) = keys[g])
            IN  [site_id |-> keys[g][1], date |-> keys[g][2][1],
                 avg_util |-> mean(Column(rows, "utilization_pct")),
                 peak_util |-> max(Column(rows, "utilization_pct")),
                 avg_latency |-> mean(Column(rows, "latency_ms"))]]

\* tmp: the mean utilization of every (site_id, hour) group.
hour_avg(d) ==
    LET keys == group_keys({HourKey(d[i]) : i \in 1..Len(d)})
    IN  [g \in 1..Len(keys) |->
            LET rows == SelectSeq(d, LAMBDA r : HourKey(r) = keys[g])
            IN  [site_id |-> keys[g][1], hour |-> keys[g][2][1],
                 hour_avg_util |-> mean(Column(rows, "utilization_pct"))]]

\* The sort with both columns ascending.
busy_sort_keys_ascending(tmp) ==
    LET ids == [i \in 1..Len(tmp) |-> Num(tmp[i].site_id[1])]
        avgs == Column(tmp, "hour_avg_util")
    IN  [i \in 1..Len(tmp) |->
            <<sort_code(ids[i], ids, TRUE), sort_code(avgs[i], avgs, TRUE)>>]

\* tmp.sort_values(["site_id", "hour_avg_util"], ascending=[True, False])
busy_sort_keys(tmp) ==
    LET ids == [i \in 1..Len(tmp) |-> Num(tmp[i].site_id[1])]
        avgs == Column(tmp, "hour_avg_util")
    IN  [i \in 1..Len(tmp) |->
            <<sort_code(ids[i], ids, TRUE), sort_code(avgs[i], avgs, FALSE)>>]

\* .groupby("site_id", as_index=False).head(1): the first row of every site.
head1(s) ==
    LET keep == {k \in 1..Len(s) : \A j \in 1..(k - 1) : s[j].site_id # s[k].site_id}
        n == Cardinality(keep)
    IN  [p \in 1..n |->
            s[CHOOSE k \in keep : Cardinality({j \in keep : j < k}) = p - 1]]

busy_hour(d) ==
    LET tmp == hour_avg(d)
    IN  head1(lexsort(tmp, busy_sort_keys(tmp)))

\* The mask with > in place of >=.
congested_mask_strict(r) == Lt(Num(CongestionThreshold), r.utilization_pct)

\* df[df["utilization_pct"] >= 80]
congested_mask(r) == Ge(r.utilization_pct, Num(CongestionThreshold))

\* .sort_values(["utilization_pct", "latency_ms"], ascending=[False, False])
congested_sort_keys(c) ==
    LET utils == Column(c, "utilization_pct")
        lats == Column(c, "latency_ms")
    IN  [i \in 1..Len(c) |->
            <<sort_code(utils[i], utils, FALSE), sort_code(lats[i], lats, FALSE)>>]

project(r) ==
    [idx |-> r.idx, timestamp |-> r.timestamp, region |-> r.region,
     city |-> r.city, site_id |-> r.site_id, tech |-> r.tech,
     utilization_pct |-> r.utilization_pct, latency_ms |-> r.latency_ms]

congested_cells(d) ==
    LET c == SelectSeq(d, congested_mask)
        s == lexsort(c, congested_sort_keys(c))
    IN  [i \in 1..Len(s) |-> project(s[i])]

compute_aggregations(d) ==
    LET sh == site_hour(d)
    IN  [site_hour |-> sh,
         site_day |-> site_day(d),
         busy_hour |-> busy_hour(d),
         congested_cells |-> congested_cells(d),
         raised |-> \E g \in 1..Len(sh) : sh[g].p95_util = IndexError,
         called |-> TRUE]

-----------------------------------------------------------------------------
(* The script app.py, one run after another.                               *)

StartVars == <<date_range, techs, regions, cities, sites, df_f, tables, warned>>

\* Lines 88-103: an uploaded CSV, or the default CSV when nothing is uploaded.
ChooseCsv(files) ==
    /\ pc = "start"
    /\ \E src \in {"upload", "default"}, f \in files :
          /\ source' = src
          /\ raw' = f
    /\ pc' = "read_csv"
    /\ UNCHANGED <<columns, df, outcome>>
    /\ UNCHANGED StartVars

\* Lines 104-106: nothing uploaded and no default CSV on disk.
NoCsv ==
    /\ pc = "start"
    /\ source' = "none"
    /\ outcome' = Ended("no_csv")
    /\ pc' = "end"
    /\ UNCHANGED <<raw, columns, df>>
    /\ UNCHANGED StartVars

\* Lines 115-134 when no table is fetched: the button is not pressed, the
\* database utilities are missing, or connecting or querying raises.  df
\* stays None and line 134 stops the run.
DbNoData ==
    /\ pc = "start"
    /\ source' = "db"
    /\ \E k \in {"db_idle", "db_unavailable", "db_exception"} : outcome' = Ended(k)
    /\ pc' = "end"
    /\ UNCHANGED <<raw, columns, df>>
    /\ UNCHANGED StartVars

\* Lines 119-129: the query result, aliased, checked for its columns, its
\* timestamps parsed.
DbFetch(results) ==
    /\ pc = "start"
    /\ source' = "db"
    /\ \E f \in results :
          /\ raw' = f
          /\ columns' = apply_aliases(f.columns)
          /\ IF missing_cols(columns') # {}
             THEN /\ df' = Indexed(f.rows)
                  /\ outcome' = [kind |-> "db_missing_columns",
                                 missing |-> sorted(missing_cols(columns')),
                                 expected |-> <<>>]
                  /\ pc' = "end"
             ELSE /\ df' = parse_timestamps(Indexed(f.rows))
                  /\ outcome' = outcome
                  /\ pc' = "loaded"
    /\ UNCHANGED StartVars

dropna_timestamp(d) == SelectSeq(d, LAMBDA r : r.timestamp # <<>>)

\* Lines 133-144: stop on an empty table, drop the rows without a timestamp,
\* check the columns once more.
DropInvalid ==
    /\ pc = "loaded"
    /\ IF df = <<>>
       THEN /\ df' = df
            /\ outcome' = Ended("no_data")
            /\ pc' = "end"
       ELSE /\ df' = dropna_timestamp(parse_timestamps(df))
            /\ IF missing_cols(columns) # {}
               THEN /\ outcome' = [kind |-> "missing_columns",
                                   missing |-> sorted(missing_cols(columns)),
                                   expected |-> <<>>]
                    /\ pc' = "end"
               ELSE /\ outcome' = outcome
                    /\ pc' = "filters"
    /\ UNCHANGED <<source, raw, columns>>
    /\ UNCHANGED StartVars

\* The values a multiselect offers: sorted(df[c].dropna().unique()).
options(d, c) == {d[i][c][1] : i \in {j \in 1..Len(d) : d[j][c] # <<>>}}

isin(v, selected) == v # <<>> /\ v[1] \in selected

\* Lines 167-171: start_date is the midnight that opens the first day,
\* end_date the midnight after the last day less one second.
start_date(range) == range[1] * Day
end_date(range) == range[2] * Day + Day - Second

date_mask(r, range) ==
    /\ r.timestamp[1] >= start_date(range)
    /\ r.timestamp[1] <= end_date(range)

\* The mask with every selection applied, the empty ones too.
mask_unguarded(r, range, ts, rs, cs, ss) ==
    /\ date_mask(r, range)
    /\ isin(r.tech, ts)
    /\ isin(r.region, rs)
    /\ isin(r.city, cs)
    /\ isin(r.site_id, ss)

\* Lines 171-175.
mask(r, range, ts, rs, cs, ss) ==
    /\ date_mask(r, range)
    /\ ts # {} => isin(r.tech, ts)
    /\ rs # {} => isin(r.region, rs)
    /\ cs # {} => isin(r.city, cs)
    /\ ss # {} => isin(r.site_id, ss)

apply_filters(d, range, ts, rs, cs, ss) ==
    SelectSeq(d, LAMBDA r : mask(r, range, ts, rs, cs, ss))

\* Lines 146-180 on a table with rows: the widgets are read (the date range
\* lies between the first and the last day of the data, the selections are
\* among the values of the data), the mask is applied, and an empty result
\* stops the run with a warning.
ApplyFilters ==
    /\ pc = "filters"
    /\ df # <<>>
    /\ LET days == {DateOf(df[i].timestamp) : i \in 1..Len(df)}
           min_d == CHOOSE a \in days : \A b \in days : a <= b
           max_d == CHOOSE a \in days : \A b \in days : a >= b
       IN  \E s \in min_d..max_d, e \in min_d..max_d :
              /\ s <= e
              /\ date_range' = <<s, e>>
    /\ techs' \in SUBSET options(df, "tech")
    /\ regions' \in SUBSET options(df, "region")
    /\ cities' \in SUBSET options(df, "city")
    /\ sites' \in SUBSET options(df, "site_id")
    /\ df_f' = apply_filters(df, date_range', techs', regions', cities', sites')
    /\ IF df_f' = <<>>
       THEN /\ outcome' = Ended("warning")
            /\ warned' = TRUE
            /\ pc' = "end"
       ELSE /\ outcome' = outcome
            /\ warned' = warned
            /\ pc' = "kpis"
    /\ UNCHANGED <<source, raw, columns, df, tables>>

\* Lines 146-180 on a table that lost every row at line 138: min() and max()
\* of the timestamps are NaT, and what st.date_input makes of NaT bounds is
\* the library's choice: it raises, or it returns a range and the empty
\* mask ends the run in the warning.
FiltersOnEmpty ==
    /\ pc = "filters"
    /\ df = <<>>
    /\ \E raises \in BOOLEAN :
          outcome' = IF raises THEN Ended("exception") ELSE Ended("warning")
    /\ pc' = "end"
    /\ UNCHANGED <<source, raw, columns, df, date_range, techs, regions,
                   cities, sites, df_f, tables, warned>>

\* Lines 191-226: the KPI row and the charts.  np.percentile of the
\* non-null utilization raises when there is none.
Kpis ==
    /\ pc = "kpis"
    /\ IF np_percentile(dropna(Column(df_f, "utilization_pct")), 95) = IndexError
       THEN /\ outcome' = Ended("exception")
            /\ pc' = "end"
       ELSE /\ outcome' = outcome
            /\ pc' = "aggregate"
    /\ UNCHANGED <<source, raw, columns, df, date_range, techs, regions,
                   cities, sites, df_f, tables, warned>>

\* Lines 228-249: the analysis tables.
Aggregate ==
    /\ pc = "aggregate"
    /\ tables' = compute_aggregations(df_f)
    /\ outcome' = IF tables'.raised THEN Ended("exception") ELSE Ended("rendered")
    /\ pc' = "end"
    /\ UNCHANGED <<source, raw, columns, df, date_range, techs, regions,
                   cities, sites, df_f, warned>>

\* A widget changes and Streamlit runs the script again from the top.
Rerun ==
    /\ pc = "end"
    /\ pc' = "start"
    /\ source' = "none"
    /\ raw' = NoFile
    /\ columns' = {}
    /\ df' = <<>>
    /\ outcome' = NoOutcome
    /\ date_range' = <<>>
    /\ techs' = {}
    /\ regions' = {}
    /\ cities' = {}
    /\ sites' = {}
    /\ df_f' = <<>>
    /\ tables' = NoTables
    /\ UNCHANGED warned

-----------------------------------------------------------------------------
(* The inputs.                                                             *)

\* The session: files whose rows differ in timestamp, tech and utilization.
AppRows ==
    {Row(ts, <<"North">>, <<"Pune">>, <<1>>, <<tch>>, u[1], u[2], u[3], Num(20)) :
        ts \in {<<0, 0>>, <<1, At(0, 10, 0, 0, 0)>>, <<1, At(1, 19, 5, 0, 0)>>},
        tch \in {"4G", "5G"},
        u \in {<<NaN, NaN, NaN>>, <<Num(100), Num(90), Num(90)>>}}

AppHeaders ==
    {REQUIRED_COLS, REQUIRED_COLS \ {"cell_id"},
     (REQUIRED_COLS \ {"timestamp"}) \cup {"time"}}

AppFiles == [columns : AppHeaders, rows : SeqsUpTo(AppRows, MaxRows)]

\* The fixed query of fetch_sample_usage names the twelve required columns.
DbResults == [columns : {REQUIRED_COLS}, rows : SeqsUpTo(AppRows, MaxRows)]

\* read_network_csv: headers with columns dropped and aliases added, and
\* rows that differ in capacity, throughput and utilization.
GoodRow == Row(<<1, At(0, 10, 0, 0, 0)>>, <<"North">>, <<"Pune">>, <<1>>, <<"4G">>,
               Num(100), Num(50), Num(50), Num(20))
BadRow == [GoodRow EXCEPT !.timestamp = <<0, 0>>]

CsvHeaders ==
    {(REQUIRED_COLS \ drop) \cup extra :
        drop \in SUBSET {"timestamp", "cell_id", "utilization_pct"},
        extra \in SUBSET {"time", "datetime", "date_time"}}

CsvRows ==
    {[GoodRow EXCEPT !.capacity_mbps = cap, !.throughput_mbps = thr,
                     !.utilization_pct = util] :
        cap \in {NaN, NotNumber, Num(0), Num(100)},
        thr \in {NaN, Num(-50), Num(0), Num(50), Num(150)},
        util \in {NaN, NotNumber, Num(120)}} \cup {BadRow}

CsvFiles ==
    [columns : CsvHeaders, rows : {<<>>, <<GoodRow>>, <<BadRow>>}]
    \cup [columns : {REQUIRED_COLS}, rows : SeqsUpTo(CsvRows, MaxCsvRows)]

\* The filter: normalized rows around the end of day 0, that differ from a
\* base row in one categorical column, or have none.
FilterTimes ==
    {<<At(0, 23, 59, 59, 0)>>, <<At(0, 23, 59, 59, 500)>>, <<At(1, 0, 0, 0, 0)>>}

FilterCats ==
    {<<<<"4G">>, <<"North">>, <<"Pune">>, <<1>>>>,
     <<<<"5G">>, <<"North">>, <<"Pune">>, <<1>>>>,
     <<<<"4G">>, <<"South">>, <<"Pune">>, <<1>>>>,
     <<<<"4G">>, <<"North">>, <<"Nashik">>, <<1>>>>,
     <<<<"4G">>, <<"North">>, <<"Pune">>, <<2>>>>,
     <<<<>>, <<>>, <<>>, <<>>>>}

FilterRows ==
    {Row(ts, c[2], c[3], c[4], c[1], Num(100), Num(90), Num(90), Num(20)) :
        ts \in FilterTimes, c \in FilterCats}

FilterTables == {Indexed(t) : t \in SeqsUpTo(FilterRows, MaxFilterRows) \ {<<>>}}

\* compute_aggregations: rows of two sites at two hours of one day, rows
\* with and without a site on two days, and rows that differ in utilization
\* and latency.
HourRows ==
    {Row(ts, <<"North">>, <<"Pune">>, <<1>>, <<"4G">>, Num(100), NaN, util, Num(20)) :
        ts \in {<<At(0, 10, 0, 0, 0)>>, <<At(0, 11, 30, 0, 0)>>},
        util \in {NaN, Num(40), Num(50), Num(60), Num(90)}}
    \cup
    {Row(ts, <<"North">>, <<"Pune">>, <<2>>, <<"4G">>, Num(100), NaN, util, Num(20)) :
        ts \in {<<At(0, 10, 0, 0, 0)>>, <<At(0, 11, 30, 0, 0)>>},
        util \in {NaN, Num(60)}}

DayRows ==
    {Row(ts, <<"North">>, <<"Pune">>, site, <<"4G">>, Num(100), NaN, util, Num(20)) :
        ts \in {<<At(0, 10, 0, 0, 0)>>, <<At(0, 11, 30, 0, 0)>>, <<At(1, 10, 0, 0, 0)>>},
        site \in {<<>>, <<1>>},
        util \in {NaN, Num(60)}}

CongestedRows ==
    {Row(<<At(0, 10, 0, 0, 0)>>, <<"North">>, <<"Pune">>, <<1>>, <<"4G">>,
         Num(100), NaN, util, lat) :
        util \in {NaN, Num(79), Num(80), Num(95)},
        lat \in {NaN, Num(10), Num(20)}}

AggTables ==
    {Indexed(t) : t \in SeqsUpTo(HourRows, MaxAggRows)
                        \cup SeqsUpTo(DayRows, MaxAggRows)
                        \cup SeqsUpTo(CongestedRows, MaxAggRows)}

-----------------------------------------------------------------------------
(* Specifications.                                                         *)

Fresh ==
    /\ source = "none"
    /\ raw = NoFile
    /\ columns = {}
    /\ df = <<>>
    /\ outcome = NoOutcome
    /\ date_range = <<>>
    /\ techs = {}
    /\ regions = {}
    /\ cities = {}
    /\ sites = {}
    /\ df_f = <<>>
    /\ tables = NoTables
    /\ warned = FALSE

\* A session of the dashboard.
Init ==
    /\ pc = "start"
    /\ Fresh

Next ==
    \/ ChooseCsv(AppFiles)
    \/ NoCsv
    \/ DbNoData
    \/ DbFetch(DbResults)
    \/ ReadCsv
    \/ CheckColumns
    \/ ParseTimestamp
    \/ CoerceNumeric
    \/ Backfill
    \/ DropInvalid
    \/ ApplyFilters
    \/ FiltersOnEmpty
    \/ Kpis
    \/ Aggregate
    \/ Rerun

Spec == Init /\ [][Next]_vars

\* read_network_csv called on a file.
InitCsv ==
    /\ pc = "read_csv"
    /\ source = "upload"
    /\ raw \in CsvFiles
    /\ columns = {}
    /\ df = <<>>
    /\ outcome = NoOutcome
    /\ date_range = <<>>
    /\ techs = {}
    /\ regions = {}
    /\ cities = {}
    /\ sites = {}
    /\ df_f = <<>>
    /\ tables = NoTables
    /\ warned = FALSE

NextCsv ==
    \/ ReadCsv
    \/ CheckColumns
    \/ ParseTimestamp
    \/ CoerceNumeric
    \/ Backfill

SpecCsv == InitCsv /\ [][NextCsv]_vars

\* The filter stage entered with a normalized table.
InitFilter ==
    /\ pc = "filters"
    /\ source = "upload"
    /\ raw = NoFile
    /\ columns = REQUIRED_COLS
    /\ df \in FilterTables
    /\ outcome = NoOutcome
    /\ date_range = <<>>
    /\ techs = {}
    /\ regions = {}
    /\ cities = {}
    /\ sites = {}
    /\ df_f = <<>>
    /\ tables = NoTables
    /\ warned = FALSE

NextFilter == ApplyFilters

SpecFilter == InitFilter /\ [][NextFilter]_vars

\* compute_aggregations called on a table.
InitAgg ==
    /\ pc = "aggregate"
    /\ source = "upload"
    /\ raw = NoFile
    /\ columns = REQUIRED_COLS
    /\ df = <<>>
    /\ outcome = NoOutcome
    /\ date_range = <<>>
    /\ techs = {}
    /\ regions = {}
    /\ cities = {}
    /\ sites = {}
    /\ df_f \in AggTables
    /\ tables = NoTables
    /\ warned = FALSE

NextAgg == Aggregate

SpecAgg == InitAgg /\ [][NextAgg]_vars

-----------------------------------------------------------------------------
(* Properties of compute_aggregations, checked under SpecAgg.  The         *)
(* utilization and latency values of AggTables are whole numbers, and the  *)
(* properties are stated over them with integer arithmetic on the rows of  *)
(* the input, df_f.                                                        *)

Rows == 1..Len(df_f)

RECURSIVE UtilSum(_)
UtilSum(I) ==
    IF I = {} THEN 0
    ELSE LET i == CHOOSE j \in I : TRUE
         IN  df_f[i].utilization_pct[1] + UtilSum(I \ {i})

\* The rows of site s at hour h (on day d) whose utilization is not null.
HourVals(s, h) ==
    {i \in Rows : /\ df_f[i].site_id = s
                  /\ HourOf(df_f[i].timestamp) = h
                  /\ df_f[i].utilization_pct # <<>>}
DayVals(s, d) ==
    {i \in Rows : /\ df_f[i].site_id = s
                  /\ DateOf(df_f[i].timestamp) = d
                  /\ df_f[i].utilization_pct # <<>>}

HoursOf(s) == {HourOf(df_f[i].timestamp) : i \in {j \in Rows : df_f[j].site_id = s}}

\* Hour h of site s has a mean, and hour x has none or a lower or equal one.
MeanAtLeast(s, h, x) ==
    /\ HourVals(s, h) # {}
    /\ \/ HourVals(s, x) = {}
       \/ UtilSum(HourVals(s, h)) * Cardinality(HourVals(s, x))
             >= UtilSum(HourVals(s, x)) * Cardinality(HourVals(s, h))

\* The busy hour of site s: the lowest of the hours with the highest mean;
\* the lowest hour of all when no hour of the site has a mean.
IsBusyHour(s, h) ==
    /\ h \in HoursOf(s)
    /\ IF \E x \in HoursOf(s) : HourVals(s, x) # {}
       THEN /\ \A x \in HoursOf(s) : MeanAtLeast(s, h, x)
            /\ \A x \in HoursOf(s) : MeanAtLeast(s, x, h) => h <= x
       ELSE \A x \in HoursOf(s) : h <= x

\* C1: busy_hour holds exactly one row for each distinct site_id of the
\* input (a null site_id is no site), and the hour of that row is the hour
\* of the site with the highest mean utilization_pct over its non-null
\* values, the lowest such hour when several share the highest mean.
C1_BusyHour ==
    tables.called =>
        LET bh == tables.busy_hour
            ids == {df_f[i].site_id : i \in Rows} \ {<<>>}
        IN  /\ \A s \in ids : Cardinality({k \in 1..Len(bh) : bh[k].site_id = s}) = 1
            /\ \A k \in 1..Len(bh) : bh[k].site_id \in ids
            /\ \A k \in 1..Len(bh) : IsBusyHour(bh[k].site_id, bh[k].hour)

\* Site 1 has the values 40 and 60 at hour 10 and the value 50 at hour 11:
\* both hours average 50 and hour 10 is kept.
C1_Witness ==
    /\ tables.called
    /\ Cardinality(HourVals(<<1>>, 10)) = 2
    /\ UtilSum(HourVals(<<1>>, 10)) = 100
    /\ \E i \in HourVals(<<1>>, 10) : df_f[i].utilization_pct = Num(40)
    /\ \E i \in HourVals(<<1>>, 11) : df_f[i].utilization_pct = Num(50)
    /\ \E k \in 1..Len(tables.busy_hour) :
          /\ tables.busy_hour[k].site_id = <<1>>
          /\ tables.busy_hour[k].hour = 10

\* Row i comes no later than row j in the order (utilization_pct,
\* latency_ms), both descending; a null latency counts as below every number.
PairAtLeast(a, b) ==
    \/ a.utilization_pct[1] > b.utilization_pct[1]
    \/ /\ a.utilization_pct[1] = b.utilization_pct[1]
       /\ \/ b.latency_ms = <<>>
          \/ a.latency_ms # <<>> /\ a.latency_ms[1] >= b.latency_ms[1]

\* C2: congested_cells holds exactly the input rows whose utilization_pct
\* is not null and at least 80, each once and with its values, in
\* non-increasing order of (utilization_pct, latency_ms).
C2_CongestedCells ==
    tables.called =>
        LET cc == tables.congested_cells
            hot == {i \in Rows : /\ df_f[i].utilization_pct # <<>>
                                 /\ df_f[i].utilization_pct[1] >= 80}
        IN  /\ {cc[k].idx : k \in 1..Len(cc)} = hot
            /\ Len(cc) = Cardinality(hot)
            /\ \A k \in 1..Len(cc) :
                  /\ cc[k].utilization_pct = df_f[cc[k].idx].utilization_pct
                  /\ cc[k].latency_ms = df_f[cc[k].idx].latency_ms
                  /\ cc[k].timestamp = df_f[cc[k].idx].timestamp
                  /\ cc[k].site_id = df_f[cc[k].idx].site_id
            /\ \A k \in 1..(Len(cc) - 1) : PairAtLeast(cc[k], cc[k + 1])

\* Three rows: one at 79 is left out, two at 80 come out with the higher
\* latency first although it was the later row of the input.
C2_Witness ==
    /\ tables.called
    /\ Len(df_f) = 3
    /\ \E i \in Rows : df_f[i].utilization_pct = Num(79)
    /\ Len(tables.congested_cells) = 2
    /\ tables.congested_cells[1].utilization_pct = Num(80)
    /\ tables.congested_cells[2].utilization_pct = Num(80)
    /\ tables.congested_cells[1].latency_ms = Num(20)
    /\ tables.congested_cells[2].latency_ms = Num(10)
    /\ tables.congested_cells[1].idx > tables.congested_cells[2].idx

\* C9 as claimed: site_hour has as many rows as the input has distinct
\* (site_id, hour) pairs and site_day as many as it has distinct
\* (site_id, date) pairs, the pairs of rows with a null site_id included.
C9_RowCounts ==
    tables.called =>
        /\ Len(tables.site_hour)
              = Cardinality({<<df_f[i].site_id, HourOf(df_f[i].timestamp)>> : i \in Rows})
        /\ Len(tables.site_day)
              = Cardinality({<<df_f[i].site_id, DateOf(df_f[i].timestamp)>> : i \in Rows})

\* The value x is the mean of the rows I.
IsMeanOf(x, I) ==
    /\ x # <<>>
    /\ x[1] * Cardinality(I) = UtilSum(I) * x[2]

\* The value x is the highest utilization of the rows I.
IsMaxOf(x, I) ==
    /\ \E i \in I : df_f[i].utilization_pct = x
    /\ \A i \in I : df_f[i].utilization_pct[1] <= x[1]

\* The value x is the 95th percentile of the rows I (fewer than 21 of them),
\* by linear interpolation: with n values the virtual index 0.95 (n - 1)
\* lies between the second highest and the highest value, 0.05 (n - 1)
\* below the highest.
IsP95Of(x, I) ==
    LET n == Cardinality(I)
        top == CHOOSE i \in I : \A j \in I :
                   df_f[j].utilization_pct[1] <= df_f[i].utilization_pct[1]
        rest == I \ {top}
        second == CHOOSE i \in rest : \A j \in rest :
                   df_f[j].utilization_pct[1] <= df_f[i].utilization_pct[1]
    IN  /\ x # <<>>
        /\ Len(x) = 2
        /\ IF n = 1
           THEN x = df_f[top].utilization_pct
           ELSE x[1] * 20 = x[2] * (df_f[second].utilization_pct[1] * (n - 1)
                                     + df_f[top].utilization_pct[1] * (21 - n))

\* C10: compute_aggregations does not raise on null values; a group of
\* site_hour or site_day whose utilization_pct values are all null has null
\* avg_util, p95_util and peak_util, and a group with non-null values has
\* their mean, their maximum and their 95th percentile, the nulls left out
\* and not counted as zero.
C10_NullSafe ==
    tables.called =>
        /\ ~tables.raised
        /\ \A g \in 1..Len(tables.site_hour) :
              LET r == tables.site_hour[g]
                  I == HourVals(r.site_id, r.hour)
              IN  IF I = {}
                  THEN r.avg_util = <<>> /\ r.p95_util = <<>>
                  ELSE IsMeanOf(r.avg_util, I) /\ IsP95Of(r.p95_util, I)
        /\ \A g \in 1..Len(tables.site_day) :
              LET r == tables.site_day[g]
                  I == DayVals(r.site_id, r.date)
              IN  IF I = {}
                  THEN r.avg_util = <<>> /\ r.peak_util = <<>>
                  ELSE IsMeanOf(r.avg_util, I) /\ IsMaxOf(r.peak_util, I)

\* One group has only null values and null statistics; another has a null
\* and the value 60, and its mean, percentile and peak are 60, not 30.
C10_Witness ==
    /\ tables.called
    /\ ~tables.raised
    /\ \E g \in 1..Len(tables.site_hour) :
          /\ tables.site_hour[g].avg_util = <<>>
          /\ tables.site_hour[g].p95_util = <<>>
    /\ \E g \in 1..Len(tables.site_hour) :
          /\ tables.site_hour[g].avg_util = Num(60)
          /\ tables.site_hour[g].p95_util = Num(60)
          /\ \E i \in Rows :
                /\ df_f[i].site_id = tables.site_hour[g].site_id
                /\ HourOf(df_f[i].timestamp) = tables.site_hour[g].hour
                /\ df_f[i].utilization_pct = <<>>
    /\ \E g \in 1..Len(tables.site_day) :
          /\ tables.site_day[g].peak_util = Num(60)
          /\ tables.site_day[g].avg_util = Num(60)

-----------------------------------------------------------------------------
(* Properties of read_network_csv, checked under SpecCsv.                  *)

\* The required columns that the header, as read, gives neither by name nor,
\* for timestamp, by one of its aliases.
AbsentAfterAliasing ==
    {c \in REQUIRED_COLS :
        /\ c \notin raw.columns
        /\ c = "timestamp" => \A k \in 1..Len(TimestampAliases) :
                                  TimestampAliases[k] \notin raw.columns}

Position(c) == CHOOSE k \in 1..Len(ColumnOrder) : ColumnOrder[k] = c

Increasing(names) ==
    \A k \in 1..(Len(names) - 1) : Position(names[k]) < Position(names[k + 1])

\* C5: read_network_csv raises the schema error exactly when a required
\* column is absent after aliasing, where the first alias present in the
\* header, and no other, is renamed to timestamp; the error lists the
\* absent required columns, sorted, and the required columns, sorted; and
\* it is raised with the table as it was read: no timestamp parsed, no
\* number coerced, no utilization filled in.
C5_SchemaError ==
    pc \notin {"read_csv", "check"} =>
        /\ outcome.kind = "schema_error" <=> AbsentAfterAliasing # {}
        /\ "timestamp" \notin raw.columns =>
              \A k \in 1..Len(TimestampAliases) :
                  TimestampAliases[k] \in raw.columns =>
                      (TimestampAliases[k] \in columns
                          <=> \E j \in 1..(k - 1) : TimestampAliases[j] \in raw.columns)
        /\ outcome.kind = "schema_error" =>
              /\ pc = "end"
              /\ {outcome.missing[k] : k \in 1..Len(outcome.missing)} = AbsentAfterAliasing
              /\ Increasing(outcome.missing)
              /\ {outcome.expected[k] : k \in 1..Len(outcome.expected)} = REQUIRED_COLS
              /\ Increasing(outcome.expected)
              /\ df = Indexed(raw.rows)

\* The header has time and datetime but neither timestamp nor cell_id nor
\* utilization_pct, and the one row has a timestamp that does not parse:
\* the schema error names cell_id and utilization_pct and the row is
\* untouched.
C5_Witness ==
    /\ outcome.kind = "schema_error"
    /\ "timestamp" \notin raw.columns
    /\ {"time", "datetime"} \subseteq raw.columns
    /\ "datetime" \in columns
    /\ "time" \notin columns
    /\ outcome.missing = <<"cell_id", "utilization_pct">>
    /\ Len(raw.rows) = 1
    /\ raw.rows[1].timestamp = <<0, 0>>
    /\ df[1].timestamp = <<0, 0>>

\* C3 as claimed: a row whose utilization_pct is null after coercion gets
\* clip(throughput / capacity * 100, 0, 100) when capacity is a number other
\* than zero and throughput is a number, and stays null whenever capacity
\* is zero or null, whatever throughput is.
C3_Backfill ==
    pc = "loaded" =>
        \A i \in 1..Len(df) :
            LET cap == to_numeric(raw.rows[i].capacity_mbps)
                thr == to_numeric(raw.rows[i].throughput_mbps)
                u == df[i].utilization_pct
            IN  to_numeric(raw.rows[i].utilization_pct) = <<>> =>
                    /\ (cap # <<>> /\ cap[1] # 0 /\ thr # <<>>) =>
                          /\ u # <<>>
                          /\ Len(u) = 2
                          /\ IF thr[1] * cap[1] < 0 THEN u = <<0, 1>>
                             ELSE IF Abs(thr[1]) > Abs(cap[1]) THEN u = <<100, 1>>
                             ELSE u[1] * cap[1] = thr[1] * 100 * u[2]
                    /\ (cap = <<>> \/ cap[1] = 0) => u = <<>>

-----------------------------------------------------------------------------
(* Properties of the filter, checked under SpecFilter.                     *)

Passes(v, selected) == selected = {} \/ (v # <<>> /\ v[1] \in selected)

\* The rows of df that the filter specification keeps.
Kept ==
    {i \in 1..Len(df) :
        /\ date_mask(df[i], date_range)
        /\ Passes(df[i].tech, techs)
        /\ Passes(df[i].region, regions)
        /\ Passes(df[i].city, cities)
        /\ Passes(df[i].site_id, sites)}

\* The table t holds exactly the rows I of df, in the order of df.
IsSubTable(t, I) ==
    /\ Len(t) = Cardinality(I)
    /\ \A k \in 1..Len(t) : t[k].idx \in I /\ t[k] = df[t[k].idx]
    /\ \A k \in 1..(Len(t) - 1) : t[k].idx < t[k + 1].idx

\* C7: the filtered table is exactly the rows that satisfy the date
\* predicate of the mask and, for each of tech, region, city and site with
\* a non-empty selection, have their value in the selection; an empty
\* selection excludes no row, so with the four selections empty the result
\* is every row that satisfies the date predicate; and filtering the
\* result again with the same specification changes nothing.
C7_Filter ==
    date_range # <<>> =>
        /\ IsSubTable(df_f, Kept)
        /\ (techs = {} /\ regions = {} /\ cities = {} /\ sites = {}) =>
              IsSubTable(df_f, {i \in 1..Len(df) : date_mask(df[i], date_range)})
        /\ apply_filters(df_f, date_range, techs, regions, cities, sites) = df_f

\* Two rows inside the date range, no tech, city or site selected, one
\* region selected: the row of the other region is left out.
C7_Witness ==
    /\ date_range # <<>>
    /\ Len(df) = 2
    /\ \A i \in 1..2 : date_mask(df[i], date_range)
    /\ techs = {} /\ cities = {} /\ sites = {}
    /\ regions = {"South"}
    /\ Len(df_f) = 1
    /\ df_f[1].idx = 2
    /\ df[1].region = <<"North">>

\* C4 as claimed: a row passes the date predicate exactly when the calendar
\* date of its timestamp lies in [start, end], whatever the time of day.
C4_DateRange ==
    date_range # <<>> =>
        \A i \in 1..Len(df) :
            date_mask(df[i], date_range)
                <=> (/\ date_range[1] <= DateOf(df[i].timestamp)
                     /\ DateOf(df[i].timestamp) <= date_range[2])

-----------------------------------------------------------------------------
(* Properties of a session, checked under Spec.                            *)

\* The rows of the loaded table whose timestamp parses.
Parseable == {i \in 1..Len(raw.rows) : to_datetime(raw.rows[i].timestamp) # <<>>}

Filtering == pc \in {"filters", "kpis", "aggregate"}

\* C6 as claimed, for tables with at least one row: on each load path a
\* table with every required column and no parseable timestamp ends the
\* run in the timestamp error and never gets to the filters or to
\* compute_aggregations; a table with a parseable timestamp does not raise
\* the timestamp error and gets to the filters with exactly its rows whose
\* timestamp parses.
C6_TimestampError ==
    (/\ source \in {"upload", "default", "db"}
     /\ AbsentAfterAliasing = {}
     /\ Len(raw.rows) >= 1) =>
        /\ Parseable = {} =>
              /\ ~Filtering
              /\ ~tables.called
              /\ pc = "end" => outcome.kind = "timestamp_error"
        /\ Parseable # {} =>
              /\ outcome.kind # "timestamp_error"
              /\ Filtering => {df[k].idx : k \in 1..Len(df)} = Parseable

\* C8 as claimed: compute_aggregations is called with a non-empty table
\* only; a run whose filters select no row ends in the warning, without an
\* error and without the call; and a run after a warning whose filters
\* select a row gets to the call.
C8_EmptyResult ==
    /\ tables.called => df_f # <<>>
    /\ (pc = "end" /\ date_range # <<>> /\ df_f = <<>>) =>
          outcome.kind = "warning" /\ ~tables.called
    /\ (warned /\ pc = "end" /\ date_range # <<>> /\ df_f # <<>>) =>
          tables.called /\ outcome.kind = "rendered"

====
